---- MODULE Spec2Model ----
(***************************************************************************)
(* The debate pipeline of multi-llm-debate-agents: the batch entry point   *)
(* run_debate (app/graph_runner.py), the streaming generator debate_live   *)
(* (app/ui.py), the seven node functions (app/nodes.py) and the memory     *)
(* store functions (app/memory.py).                                        *)
(*                                                                         *)
(* Text is a sequence of atoms.  Text whose characters the code inspects   *)
(* or counts (questions, generated replies, memory documents, display      *)
(* names) is a sequence of one-character strings; fixed prompt and markup  *)
(* literals that the code only concatenates are single multi-character     *)
(* atoms.  Glyphs outside ASCII in the source literals (emoji, the en      *)
(* dash) are written without the emoji and with "-".  Temperatures are in  *)
(* tenths (0.3 is 3).  Positions are 1-based, 0 standing for Python's -1.  *)
(***************************************************************************)
EXTENDS Naturals, Integers, Sequences, FiniteSets, TLC

VARIABLES
    store,      \* the Chroma collection: sequence of [id, document, winner]
    nextId,     \* source of fresh document ids (uuid.uuid4)
    runs,       \* number of runs started so far
    mode,       \* "none", "batch" (run_debate) or "live" (debate_live)
    pc,         \* "idle", "running", "suspended", "returned", "raised"
    node,       \* batch: the graph node to execute next
    seg,        \* live: number of the yield the generator is suspended at
    args,       \* the arguments of the current call
    state,      \* the DebateState dict of the current run
    calls,      \* generation-service calls issued by the current run
    memlog,     \* memory-store operations issued by the current run
    trace,      \* stage start/end events of the current run
    err,        \* the exception that ended the run, or "none"
    yields,     \* live: the tuples yielded so far
    result      \* batch: the returned tuple, <<>> while there is none

vars == <<store, nextId, runs, mode, pc, node, seg, args, state, calls,
          memlog, trace, err, yields, result>>

---------------------------------------------------------------------------
(* Bounds of the model *)

MaxRuns == 2

Questions == { <<>>, <<" ", "\n">>, <<" ", "q", "\n">> }

Creativities == {10}

DebaterModels == {"openai", "grok"}

JudgeModels == {"gemini", "openai"}

DebaterTexts == { <<"x">>, <<"y", "\n", "z">> }

JudgeB ==
    <<"W", "i", "n", "n", "e", "r", ":", " ", "B", "\n", "R", "e", "a", "s", "o", "n",
      ":", " ", "r", "\n", "F", "i", "n", "a", "l", ":", " ", "u">>

JudgeTie ==
    <<"W", "i", "n", "n", "e", "r", ":", " ", "t", "i", "e", "\n", "F", "i", "n", "a",
      "l", ":", " ", "v">>

JudgeTexts == { JudgeB, JudgeTie, <<>> }

---------------------------------------------------------------------------
(* Python string operations *)

\* Op(v), with v evaluated once.
Eval(v, Op(_)) == CHOOSE r \in {Op(x) : x \in {v}} : TRUE

Min(S) == CHOOSE x \in S : \A y \in S : x <= y

Max(S) == CHOOSE x \in S : \A y \in S : x >= y

UpperCase ==
    <<"A", "B", "C", "D", "E", "F", "G", "H", "I", "J", "K", "L", "M", "N", "O", "P",
      "Q", "R", "S", "T", "U", "V", "W", "X", "Y", "Z">>

LowerCase ==
    <<"a", "b", "c", "d", "e", "f", "g", "h", "i", "j", "k", "l", "m", "n", "o", "p",
      "q", "r", "s", "t", "u", "v", "w", "x", "y", "z">>

LowerChar(c) ==
    IF \E i \in 1..Len(UpperCase) : UpperCase[i] = c
    THEN LowerCase[CHOOSE i \in 1..Len(UpperCase) : UpperCase[i] = c]
    ELSE c

Lower(s) ==
    Eval(s, LAMBDA t : SubSeq([i \in 1..Len(t) |-> LowerChar(t[i])], 1, Len(t)))

Whitespace == {" ", "\t", "\n", "\r", "\f"}

StripChars(s, cs) ==
    Eval(s, LAMBDA t :
        Eval({i \in 1..Len(t) : t[i] \notin cs}, LAMBDA keep :
            IF keep = {} THEN <<>> ELSE SubSeq(t, Min(keep), Max(keep))))

Strip(s) == StripChars(s, Whitespace)

Find(hay, needle) ==
    Eval(<<hay, needle>>, LAMBDA hn :
        Eval({i \in 1..(Len(hn[1]) + 1) :
                 /\ i + Len(hn[2]) - 1 <= Len(hn[1])
                 /\ SubSeq(hn[1], i, i + Len(hn[2]) - 1) = hn[2]},
             LAMBDA hits : IF hits = {} THEN 0 ELSE Min(hits)))

Contains(hay, needle) == Find(hay, needle) # 0

StartsWith(s, p) ==
    Eval(<<s, p>>, LAMBDA sp :
        Len(sp[2]) <= Len(sp[1]) /\ SubSeq(sp[1], 1, Len(sp[2])) = sp[2])

\* The slice s[:n] cut one character short.
TakeOneLess(s, n) ==
    Eval(s, LAMBDA t : SubSeq(t, 1, IF Len(t) < n THEN Len(t) ELSE n - 1))

Take(s, n) ==
    Eval(s, LAMBDA t : SubSeq(t, 1, IF Len(t) < n THEN Len(t) ELSE n))

RemoveCR(s) == SelectSeq(s, LAMBDA c : c # "\r")

RECURSIVE JoinFrom(_, _, _)
JoinFrom(parts, sep, i) ==
    IF i > Len(parts) THEN <<>>
    ELSE IF i = Len(parts) THEN parts[i]
    ELSE parts[i] \o sep \o JoinFrom(parts, sep, i + 1)

Join(parts, sep) == Eval(parts, LAMBDA ps : JoinFrom(ps, sep, 1))

---------------------------------------------------------------------------
(* The DebateState dict *)

Has(st, k) == k \in DOMAIN st

Get(st, k, default) == IF k \in DOMAIN st THEN st[k] ELSE default

Put(st, k, v) == (k :> v) @@ st

EmptyDict == [x \in {} |-> <<>>]

---------------------------------------------------------------------------
(* Program constants and literals *)

TopK == 3

SnippetMax == 500

MemoryContextMax == 1200

JudgeTemperature == 3

OpeningMaxTokens == 220

RebuttalMaxTokens == 120

JudgeMaxTokens == 220

DEBATER_A_COLOR == <<"#1976d2">>

DEBATER_B_COLOR == <<"#2e7d32">>

JUDGE_COLOR == <<"#424242">>

LabelGrok ==
    <<"G", "r", "o", "k", " ", "(", "g", "r", "o", "k", "-", "3", "-", "m", "i", "n",
      "i", ")">>

LabelOpenAI ==
    <<"O", "p", "e", "n", "A", "I", " ", "(", "g", "p", "t", "-", "4", ".", "1", "-",
      "m", "i", "n", "i", ")">>

UnknownModelPrefix ==
    <<"U", "n", "k", "n", "o", "w", "n", " ", "m", "o", "d", "e", "l", " ", "(">>

KeyChars(model_key) ==
    CASE model_key = "grok" -> <<"g", "r", "o", "k">>
      [] model_key = "openai" -> <<"o", "p", "e", "n", "a", "i">>
      [] model_key = "gemini" -> <<"g", "e", "m", "i", "n", "i">>

WinnerTie ==
    <<"T", "i", "e">>

WinnerUnknown ==
    <<"U", "n", "k", "n", "o", "w", "n">>

Placeholder == <<"Please enter a question or topic.">>

InProgress == <<"Debate in progress... please wait for the final answer.">>

NotAvailable == <<"Final answer not available.">>

SectionSeparator == <<"\n\n">>

FinalMd(winner, final_answer) ==
    <<"### Final Answer (Winner: ">> \o winner \o <<")\n\n">> \o final_answer

---------------------------------------------------------------------------
(* app/nodes.py: rendering helpers *)

HtmlBlock(border_color, title, body) ==
    LET safe_body == Eval(body, LAMBDA t :
            SubSeq([i \in 1..Len(t) |-> IF t[i] = "\n" THEN "<br>" ELSE t[i]],
                   1, Len(t)))
    IN  <<"<div style=\"background-color:#fdfdfd; border-left:4px solid ">>
        \o border_color
        \o <<"; padding:10px 12px; border-radius:6px; margin-bottom:10px; color:#000000 !important; line-height:1.6; font-size:15px;\">">>
        \o <<"<div style=\"font-weight:650; margin-bottom:6px;\">">>
        \o title \o <<"</div>">>
        \o <<"<div>">> \o safe_body \o <<"</div>">>
        \o <<"</div>">>

ModelHumanName(model_key) ==
    IF model_key = "grok" THEN LabelGrok
    ELSE IF model_key = "openai" THEN LabelOpenAI
    ELSE UnknownModelPrefix \o KeyChars(model_key) \o <<")">>

OpeningTitle(model_key) == ModelHumanName(model_key) \o <<" - Opening">>

RebuttalTitle(model_key, round_num) ==
    ModelHumanName(model_key) \o <<" - Rebuttal Round ">>
        \o <<IF round_num = 1 THEN "1" ELSE "2">>

---------------------------------------------------------------------------
(* app/memory.py *)

Perms(n) ==
    {p \in [1..n -> 1..n] : \A i, j \in 1..n : i # j => p[i] # p[j]}

\* collection.query: the documents of the n_results records ranked most
\* similar; the ranking is the backend's and is given as rank.
QueryDocuments(coll, rank, n_results) ==
    [i \in 1..Min({n_results, Len(coll)}) |-> coll[rank[i]].document]

\* load_relevant_memories without its try/except: an exception of the
\* backend leaves the function.
LoadRelevantMemoriesUncaught(question, top_k, coll, inp) ==
    LET q == Strip(question)
    IN  IF q = <<>> THEN [ret |-> <<>>, ops |-> <<>>, raised |-> FALSE]
        ELSE IF inp.query = "raise"
        THEN [ret |-> <<>>, raised |-> TRUE,
              ops |-> <<[op |-> "query", text |-> q, outcome |-> "raise"]>>]
        ELSE Eval(QueryDocuments(coll, inp.rank, top_k), LAMBDA docs :
                 [ret |-> SubSeq([i \in 1..Len(docs) |->
                                     Take(docs[i], SnippetMax)], 1, Len(docs)),
                  raised |-> FALSE,
                  ops |-> <<[op |-> "query", text |-> q, outcome |-> "ok"]>>])

\* Returns ret, the snippets, ops, the backend operations issued, and raised,
\* whether an exception leaves the function (the except clause lets none).
LoadRelevantMemories(question, top_k, coll, inp) ==
    LET q == Strip(question)
    IN  IF q = <<>> THEN [ret |-> <<>>, ops |-> <<>>, raised |-> FALSE]
        ELSE IF inp.query = "raise"
        THEN [ret |-> <<>>, raised |-> FALSE,
              ops |-> <<[op |-> "query", text |-> q, outcome |-> "raise"]>>]
        ELSE Eval(QueryDocuments(coll, inp.rank, top_k), LAMBDA docs :
                 [ret |-> SubSeq([i \in 1..Len(docs) |->
                                     Take(docs[i], SnippetMax)], 1, Len(docs)),
                  raised |-> FALSE,
                  ops |-> <<[op |-> "query", text |-> q, outcome |-> "ok"]>>])

MemoryDocument(question, winner, final_answer) ==
    <<"Q", "u", "e", "s", "t", "i", "o", "n", ":", " ">> \o question
    \o <<"\n", "W", "i", "n", "n", "e", "r", ":", " ">> \o winner
    \o <<"\n", "F", "i", "n", "a", "l", " ", "a", "n", "s", "w", "e", "r", ":", "\n">> \o final_answer

\* store_debate_memory without its guard on blank arguments.
StoreDebateMemoryUnguarded(question, final_answer, winner, coll, id, inp) ==
    LET q == Strip(question)
        f == Strip(final_answer)
        text == MemoryDocument(q, winner, f)
    IN  IF inp.add = "raise"
        THEN [coll |-> coll, id |-> id + 1, raised |-> TRUE,
              ops |-> <<[op |-> "add", text |-> text, outcome |-> "raise"]>>]
        ELSE [coll |-> Append(coll, [id |-> id, document |-> text,
                                     winner |-> winner]),
              id |-> id + 1, raised |-> FALSE,
              ops |-> <<[op |-> "add", text |-> text, outcome |-> "ok"]>>]

\* Returns the collection, the id source, the backend operations issued and
\* raised, whether collection.add raised.
StoreDebateMemory(question, final_answer, winner, coll, id, inp) ==
    LET q == Strip(question)
        f == Strip(final_answer)
        text == MemoryDocument(q, winner, f)
    IN  IF q = <<>> \/ f = <<>>
        THEN [coll |-> coll, id |-> id, ops |-> <<>>, raised |-> FALSE]
        ELSE IF inp.add = "raise"
        THEN [coll |-> coll, id |-> id + 1, raised |-> TRUE,
              ops |-> <<[op |-> "add", text |-> text, outcome |-> "raise"]>>]
        ELSE [coll |-> Append(coll, [id |-> id, document |-> text,
                                     winner |-> winner]),
              id |-> id + 1, raised |-> FALSE,
              ops |-> <<[op |-> "add", text |-> text, outcome |-> "ok"]>>]

---------------------------------------------------------------------------
(* app/nodes.py: generation calls *)

\* A reply of the generation service: the (stripped) text it returns, or a
\* raised exception.
Failure == [ok |-> FALSE, text |-> <<>>]

DebaterReplies == {[ok |-> TRUE, text |-> t] : t \in DebaterTexts} \cup {Failure}

JudgeReplies == {[ok |-> TRUE, text |-> t] : t \in JudgeTexts} \cup {Failure}

\* One call of a client wrapper of app/clients.py, with what it was given
\* and what came back.
ClientCall(backend, messages, temperature, max_tokens, reply) ==
    [backend |-> backend, messages |-> messages, temperature |-> temperature,
     max_tokens |-> max_tokens, ok |-> reply.ok, text |-> reply.text]

\* The router with every key dispatched to OpenAI.
CallDebaterOpenAIOnly(model_key, messages, temperature, max_tokens, reply) ==
    ClientCall("openai", messages, temperature, max_tokens, reply)

CallDebater(model_key, messages, temperature, max_tokens, reply) ==
    IF model_key = "grok"
    THEN ClientCall("grok", messages, temperature, max_tokens, reply)
    ELSE ClientCall("openai", messages, temperature, max_tokens, reply)

ShortRebuttalForA(question, other_text, temperature, model_key, reply) ==
    CallDebater(model_key,
        << [role |-> "system",
            content |-> <<"You are Debater A. Briefly rebut Debater B.\nRules:\n- Max 3 bullet points.\n- Each bullet under 20 words.\n- Be precise, not rude.">>],
           [role |-> "user",
            content |-> <<"Question: ">> \o question
                        \o <<"\n\nDebater B's latest answer:\n">> \o other_text] >>,
        temperature, RebuttalMaxTokens, reply)

ShortRebuttalForB(question, other_text, temperature, model_key, reply) ==
    CallDebater(model_key,
        << [role |-> "system",
            content |-> <<"You are Debater B. Briefly rebut Debater A.\nRules:\n- Max 3 bullet points.\n- Each bullet under 20 words.\n- Be precise, not rude.">>],
           [role |-> "user",
            content |-> <<"Question: ">> \o question
                        \o <<"\n\nDebater A's latest answer:\n">> \o other_text] >>,
        temperature, RebuttalMaxTokens, reply)

---------------------------------------------------------------------------
(* app/nodes.py: the node functions.  A node takes and returns the record  *)
(* w of what it can touch: state, store, nextId, calls, memlog, and err,   *)
(* the exception it raised ("none" when it returned).                      *)

Missing(st, keys) == \E i \in 1..Len(keys) : ~Has(st, keys[i])

Last(s) == s[Len(s)]

NodeLoadMemory(w, inp) ==
    Eval(LoadRelevantMemories(w.state["question"], TopK, w.store, inp),
         LAMBDA r :
            IF r.raised
            THEN [w EXCEPT !.memlog = @ \o r.ops, !.err = "QueryError"]
            ELSE LET s1 == Put(w.state, "memory_snippets", r.ret)
                     s2 == IF ~Has(s1, "transcript_sections")
                           THEN Put(s1, "transcript_sections", <<>>) ELSE s1
                 IN  [w EXCEPT !.state = s2, !.memlog = @ \o r.ops])

\* node_store_memory storing the default winner instead of the run's.
NodeStoreMemoryDefaultWinner(w, inp) ==
    Eval(StoreDebateMemory(Get(w.state, "question", <<>>),
                           Get(w.state, "final_answer", <<>>),
                           WinnerUnknown,
                           w.store, w.nextId, inp),
         LAMBDA r :
            [w EXCEPT !.store = r.coll, !.nextId = r.id, !.memlog = @ \o r.ops,
                      !.err = IF r.raised THEN "StoreError" ELSE "none"])

NodeStoreMemory(w, inp) ==
    Eval(StoreDebateMemory(Get(w.state, "question", <<>>),
                           Get(w.state, "final_answer", <<>>),
                           Get(w.state, "winner", WinnerUnknown),
                           w.store, w.nextId, inp),
         LAMBDA r :
            [w EXCEPT !.store = r.coll, !.nextId = r.id, !.memlog = @ \o r.ops,
                      !.err = IF r.raised THEN "StoreError" ELSE "none"])

\* The memory context with each snippet cut to the maximum, the joined text
\* left as long as it comes.
MemoryContextPerSnippet(memory_snippets) ==
    IF memory_snippets # <<>>
    THEN <<"H", "e", "r", "e", " ", "a", "r", "e", " ", "s", "o", "m", "e", " ", "r", "e",
      "l", "e", "v", "a", "n", "t", " ", "p", "a", "s", "t", " ", "d", "e", "b", "a",
      "t", "e", "s", ".", " ", "Y", "o", "u", " ", "m", "a", "y", " ", "r", "e", "u",
      "s", "e", " ", "u", "s", "e", "f", "u", "l", " ", "i", "d", "e", "a", "s", ",",
      " ", "b", "u", "t", " ", "d", "o", " ", "n", "o", "t", " ", "c", "o", "p", "y",
      " ", "s", "e", "n", "t", "e", "n", "c", "e", "s", " ", "w", "o", "r", "d", "-",
      "f", "o", "r", "-", "w", "o", "r", "d", ":", "\n", "\n">>
         \o Join([i \in 1..Len(memory_snippets) |->
                     Take(memory_snippets[i], MemoryContextMax)],
                 <<"\n", "\n", "-", "-", "-", "\n", "\n">>)
    ELSE <<>>

MemoryContext(memory_snippets) ==
    IF memory_snippets # <<>>
    THEN Take(<<"H", "e", "r", "e", " ", "a", "r", "e", " ", "s", "o", "m", "e", " ", "r", "e",
      "l", "e", "v", "a", "n", "t", " ", "p", "a", "s", "t", " ", "d", "e", "b", "a",
      "t", "e", "s", ".", " ", "Y", "o", "u", " ", "m", "a", "y", " ", "r", "e", "u",
      "s", "e", " ", "u", "s", "e", "f", "u", "l", " ", "i", "d", "e", "a", "s", ",",
      " ", "b", "u", "t", " ", "d", "o", " ", "n", "o", "t", " ", "c", "o", "p", "y",
      " ", "s", "e", "n", "t", "e", "n", "c", "e", "s", " ", "w", "o", "r", "d", "-",
      "f", "o", "r", "-", "w", "o", "r", "d", ":", "\n", "\n">>
              \o Join(memory_snippets, <<"\n", "\n", "-", "-", "-", "\n", "\n">>),
              MemoryContextMax)
    ELSE <<>>

OpeningSystemA(memory_context) ==
    <<"You are Debater A. Answer the user's question briefly.\nRules:\n- Max ~120 words.\n- Use at most 3 bullet points OR 2 short paragraphs.\n">>
    \o (IF memory_context # <<>>
        THEN <<"\nYou also have access to some memory:\n">> \o memory_context
        ELSE <<>>)

OpeningSystemB(memory_context) ==
    <<"You are Debater B. Answer the user's question briefly.\nRules:\n- Max ~120 words.\n- Use at most 3 bullet points OR 2 short paragraphs.\n- Focus slightly more on practical examples.\n">>
    \o (IF memory_context # <<>>
        THEN <<"\nYou also have access to some memory:\n">> \o memory_context
        ELSE <<>>)

NodeOpening(w, inp) ==
    IF Missing(w.state, <<"question", "temperature", "debater_a_model",
                          "debater_b_model">>)
    THEN [w EXCEPT !.err = "KeyError"]
    ELSE
    LET question == w.state["question"]
        temperature == w.state["temperature"]
        model_a == w.state["debater_a_model"]
        model_b == w.state["debater_b_model"]
        memory_context == MemoryContext(Get(w.state, "memory_snippets", <<>>))
        call_a == CallDebater(model_a,
                      << [role |-> "system",
                          content |-> OpeningSystemA(memory_context)],
                         [role |-> "user",
                          content |-> <<"Question: ">> \o question] >>,
                      temperature, OpeningMaxTokens, inp.a)
        call_b == CallDebater(model_b,
                      << [role |-> "system",
                          content |-> OpeningSystemB(memory_context)],
                         [role |-> "user",
                          content |-> <<"Question: ">> \o question] >>,
                      temperature, OpeningMaxTokens, inp.b)
        opening_a == call_a.text
        opening_b == call_b.text
        sections == Get(w.state, "transcript_sections", <<>>)
            \o << <<"<h2>Question</h2>">>,
                  <<"<p>">> \o question \o <<"</p>">>,
                  <<"<h2>Opening Statements</h2>">>,
                  HtmlBlock(DEBATER_A_COLOR, OpeningTitle(model_a), opening_a),
                  HtmlBlock(DEBATER_B_COLOR, OpeningTitle(model_b), opening_b) >>
    IN  IF ~call_a.ok
        THEN [w EXCEPT !.calls = Append(@, call_a), !.err = "GenerationError"]
        ELSE IF ~call_b.ok
        THEN [w EXCEPT !.calls = @ \o <<call_a, call_b>>,
                       !.err = "GenerationError"]
        ELSE [w EXCEPT !.calls = @ \o <<call_a, call_b>>,
                       !.state = Put(Put(Put(Put(Put(@,
                            "opening_a", opening_a),
                            "opening_b", opening_b),
                            "rebuttals_a", <<>>),
                            "rebuttals_b", <<>>),
                            "transcript_sections", sections)]

\* The rebuttal round with B's append left out.
RebuttalRoundOnlyA(w, inp, round_num, other_for_a, other_for_b) ==
    LET question == w.state["question"]
        temp == w.state["temperature"]
        model_a == w.state["debater_a_model"]
        model_b == w.state["debater_b_model"]
        call_a == ShortRebuttalForA(question, other_for_a, temp, model_a, inp.a)
        call_b == ShortRebuttalForB(question, other_for_b, temp, model_b, inp.b)
    IN  IF ~call_a.ok
        THEN [w EXCEPT !.calls = Append(@, call_a), !.err = "GenerationError"]
        ELSE IF ~call_b.ok
        THEN [w EXCEPT !.calls = @ \o <<call_a, call_b>>,
                       !.err = "GenerationError"]
        ELSE [w EXCEPT !.calls = @ \o <<call_a, call_b>>,
                       !.state = Put(@, "rebuttals_a",
                                Append(w.state["rebuttals_a"], call_a.text))]
\* The rebuttal round with B's section put in the transcript before A's.
RebuttalRoundBFirst(w, inp, round_num, other_for_a, other_for_b) ==
    LET question == w.state["question"]
        temp == w.state["temperature"]
        model_a == w.state["debater_a_model"]
        model_b == w.state["debater_b_model"]
        call_a == ShortRebuttalForA(question, other_for_a, temp, model_a, inp.a)
        call_b == ShortRebuttalForB(question, other_for_b, temp, model_b, inp.b)
        sections == w.state["transcript_sections"]
            \o << <<"<h2>Rebuttal Round ">>
                    \o <<IF round_num = 1 THEN "1" ELSE "2">> \o <<"</h2>">>,
                  HtmlBlock(DEBATER_B_COLOR, RebuttalTitle(model_b, round_num),
                            call_b.text),
                  HtmlBlock(DEBATER_A_COLOR, RebuttalTitle(model_a, round_num),
                            call_a.text) >>
    IN  IF ~call_a.ok
        THEN [w EXCEPT !.calls = Append(@, call_a), !.err = "GenerationError"]
        ELSE IF ~call_b.ok
        THEN [w EXCEPT !.calls = @ \o <<call_a, call_b>>,
                       !.err = "GenerationError"]
        ELSE [w EXCEPT !.calls = @ \o <<call_a, call_b>>,
                       !.state = Put(Put(Put(@,
                            "rebuttals_a",
                                Append(w.state["rebuttals_a"], call_a.text)),
                            "rebuttals_b",
                                Append(w.state["rebuttals_b"], call_b.text)),
                            "transcript_sections", sections)]

\* The rebuttal round with A's rebuttal recorded as soon as A's call has
\* returned, before B's call is made.
RebuttalRoundEagerA(w, inp, round_num, other_for_a, other_for_b) ==
    LET question == w.state["question"]
        temp == w.state["temperature"]
        model_a == w.state["debater_a_model"]
        model_b == w.state["debater_b_model"]
        call_a == ShortRebuttalForA(question, other_for_a, temp, model_a, inp.a)
        call_b == ShortRebuttalForB(question, other_for_b, temp, model_b, inp.b)
        with_a == Put(w.state, "rebuttals_a",
                      Append(w.state["rebuttals_a"], call_a.text))
        sections == w.state["transcript_sections"]
            \o << <<"<h2>Rebuttal Round ">>
                    \o <<IF round_num = 1 THEN "1" ELSE "2">> \o <<"</h2>">>,
                  HtmlBlock(DEBATER_A_COLOR, RebuttalTitle(model_a, round_num),
                            call_a.text),
                  HtmlBlock(DEBATER_B_COLOR, RebuttalTitle(model_b, round_num),
                            call_b.text) >>
    IN  IF ~call_a.ok
        THEN [w EXCEPT !.calls = Append(@, call_a), !.err = "GenerationError"]
        ELSE IF ~call_b.ok
        THEN [w EXCEPT !.calls = @ \o <<call_a, call_b>>,
                       !.state = with_a,
                       !.err = "GenerationError"]
        ELSE [w EXCEPT !.calls = @ \o <<call_a, call_b>>,
                       !.state = Put(Put(with_a,
                            "rebuttals_b",
                                Append(w.state["rebuttals_b"], call_b.text)),
                            "transcript_sections", sections)]

\* The part the two rebuttal nodes share: both calls, then the appends.
RebuttalRound(w, inp, round_num, other_for_a, other_for_b) ==
    LET question == w.state["question"]
        temp == w.state["temperature"]
        model_a == w.state["debater_a_model"]
        model_b == w.state["debater_b_model"]
        call_a == ShortRebuttalForA(question, other_for_a, temp, model_a, inp.a)
        call_b == ShortRebuttalForB(question, other_for_b, temp, model_b, inp.b)
        sections == w.state["transcript_sections"]
            \o << <<"<h2>Rebuttal Round ">>
                    \o <<IF round_num = 1 THEN "1" ELSE "2">> \o <<"</h2>">>,
                  HtmlBlock(DEBATER_A_COLOR, RebuttalTitle(model_a, round_num),
                            call_a.text),
                  HtmlBlock(DEBATER_B_COLOR, RebuttalTitle(model_b, round_num),
                            call_b.text) >>
    IN  IF ~call_a.ok
        THEN [w EXCEPT !.calls = Append(@, call_a), !.err = "GenerationError"]
        ELSE IF ~call_b.ok
        THEN [w EXCEPT !.calls = @ \o <<call_a, call_b>>,
                       !.err = "GenerationError"]
        ELSE [w EXCEPT !.calls = @ \o <<call_a, call_b>>,
                       !.state = Put(Put(Put(@,
                            "rebuttals_a",
                                Append(w.state["rebuttals_a"], call_a.text)),
                            "rebuttals_b",
                                Append(w.state["rebuttals_b"], call_b.text)),
                            "transcript_sections", sections)]

\* node_rebuttal_round_1 keeping each debater's latest text in opening_a and
\* opening_b.
NodeRebuttalRound1Overwriting(w, inp) ==
    IF Missing(w.state, <<"question", "temperature", "debater_a_model",
                          "debater_b_model", "opening_a", "opening_b">>)
    THEN [w EXCEPT !.err = "KeyError"]
    ELSE Eval(RebuttalRound(w, inp, 1, w.state["opening_b"],
                            w.state["opening_a"]),
              LAMBDA w1 :
                 IF w1.err # "none" THEN w1
                 ELSE [w1 EXCEPT !.state =
                         Put(Put(@, "opening_a", Last(w1.state["rebuttals_a"])),
                             "opening_b", Last(w1.state["rebuttals_b"]))])

NodeRebuttalRound1(w, inp) ==
    IF Missing(w.state, <<"question", "temperature", "debater_a_model",
                          "debater_b_model", "opening_a", "opening_b">>)
    THEN [w EXCEPT !.err = "KeyError"]
    ELSE RebuttalRound(w, inp, 1, w.state["opening_b"], w.state["opening_a"])

\* node_rebuttal_round_2 answering the openings again.
NodeRebuttalRound2Openings(w, inp) ==
    IF Missing(w.state, <<"question", "temperature", "debater_a_model",
                          "debater_b_model", "rebuttals_a", "rebuttals_b">>)
    THEN [w EXCEPT !.err = "KeyError"]
    ELSE IF w.state["rebuttals_a"] = <<>> \/ w.state["rebuttals_b"] = <<>>
    THEN [w EXCEPT !.err = "IndexError"]
    ELSE RebuttalRound(w, inp, 2, w.state["opening_b"], w.state["opening_a"])

NodeRebuttalRound2(w, inp) ==
    IF Missing(w.state, <<"question", "temperature", "debater_a_model",
                          "debater_b_model", "rebuttals_a", "rebuttals_b">>)
    THEN [w EXCEPT !.err = "KeyError"]
    ELSE IF w.state["rebuttals_a"] = <<>> \/ w.state["rebuttals_b"] = <<>>
    THEN [w EXCEPT !.err = "IndexError"]
    ELSE RebuttalRound(w, inp, 2, Last(w.state["rebuttals_b"]),
                       Last(w.state["rebuttals_a"]))

---------------------------------------------------------------------------
(* app/nodes.py: node_judge and its parser *)

CutLabels ==
    << <<"w", "i", "n", "n", "e", "r", ":">>,
       <<"r", "e", "a", "s", "o", "n", ":">>,
       <<"f", "i", "n", "a", "l", ":">> >>

\* rest cut at the first occurrence of other, when there is one.
CutAt(rest, other) ==
    Eval(rest, LAMBDA r :
        Eval(Find(Lower(r), other), LAMBDA pos :
            IF pos # 0 THEN SubSeq(r, 1, pos - 1) ELSE r))

RECURSIVE CutAtLabels(_, _, _)
CutAtLabels(rest, label, i) ==
    IF i > Len(CutLabels) THEN rest
    ELSE Eval(IF StartsWith(Lower(CutLabels[i]), Lower(label))
              THEN rest
              ELSE CutAt(rest, CutLabels[i]),
              LAMBDA cut : CutAtLabels(cut, label, i + 1))

\* _extract without the cut at the next label.
ExtractToEnd(text, label) ==
    Eval(text, LAMBDA t :
        Eval(Find(Lower(t), Lower(label) \o <<":">>), LAMBDA idx :
            IF idx = 0 THEN <<>>
            ELSE StripChars(SubSeq(t, idx + Len(label) + 1, Len(t)),
                            {" ", "\n", "-", ":"})))

\* _extract(label) on the judge text with "\r" removed.
Extract(text, label) ==
    Eval(text, LAMBDA t :
        Eval(Find(Lower(t), Lower(label) \o <<":">>), LAMBDA idx :
            IF idx = 0 THEN <<>>
            ELSE StripChars(
                     CutAtLabels(SubSeq(t, idx + Len(label) + 1, Len(t)),
                                 label, 1),
                     {" ", "\n", "-", ":"})))

WinnerRaw(judge_raw) ==
    Extract(RemoveCR(judge_raw), <<"w", "i", "n", "n", "e", "r">>)

ReasonRaw(judge_raw) ==
    Extract(RemoveCR(judge_raw), <<"r", "e", "a", "s", "o", "n">>)

\* final_raw without the fallback to the whole text.
FinalRawNoFallback(judge_raw) ==
    Extract(RemoveCR(judge_raw), <<"f", "i", "n", "a", "l">>)

FinalRaw(judge_raw) ==
    Eval(RemoveCR(judge_raw), LAMBDA text :
        Eval(Extract(text, <<"f", "i", "n", "a", "l">>), LAMBDA final_raw :
            IF final_raw = <<>> THEN Strip(text) ELSE final_raw))

\* The winner resolution with the side tests before the tie test.
WinnerDisplaySidesFirst(winner_raw, label_a, label_b) ==
    Eval(Lower(winner_raw), LAMBDA wl :
        IF Contains(wl, <<"b">>) /\ ~Contains(wl, <<"a">>) THEN label_b
        ELSE IF Contains(wl, <<"a">>) /\ ~Contains(wl, <<"b">>) THEN label_a
        ELSE IF Contains(wl, <<"t", "i", "e">>) THEN WinnerTie
        ELSE WinnerUnknown)

WinnerDisplay(winner_raw, label_a, label_b) ==
    Eval(Lower(winner_raw), LAMBDA wl :
        IF Contains(wl, <<"t", "i", "e">>) THEN WinnerTie
        ELSE IF Contains(wl, <<"b">>) /\ ~Contains(wl, <<"a">>) THEN label_b
        ELSE IF Contains(wl, <<"a">>) /\ ~Contains(wl, <<"b">>) THEN label_a
        ELSE WinnerUnknown)

JudgeInstructions ==
    <<"You are the Judge of a debate between two AI debaters (A and B).\nYour job:\n1) Decide who argued better overall (A, B, or tie).\n2) Briefly explain why.\n3) Give a final concise answer for the user.\n\nOutput format (plain text, short):\nWinner: A / B / tie\nReason: <1-3 short sentences>\nFinal: <short final answer, max ~80 words>\n">>

DebateContext(question, opening_a, opening_b, latest_a, latest_b) ==
    <<"Question:\n">> \o question
    \o <<"\n\nDebater A (Opening):\n">> \o opening_a
    \o <<"\n\nDebater B (Opening):\n">> \o opening_b
    \o <<"\n\nDebater A (Latest Rebuttal):\n">> \o latest_a
    \o <<"\n\nDebater B (Latest Rebuttal):\n">> \o latest_b \o <<"\n">>

\* The judge call with the Gemini judge left at the default temperature 0.6.
JudgeCallGeminiDefault(judge_model, prompt, reply) ==
    IF judge_model = "openai"
    THEN ClientCall("openai",
             << [role |-> "system",
                 content |-> <<"You are the Judge. Follow the user's instructions and respond in the requested format.">>],
                [role |-> "user", content |-> prompt] >>,
             JudgeTemperature, JudgeMaxTokens, reply)
    ELSE ClientCall("gemini", << [role |-> "prompt", content |-> prompt] >>,
             6, JudgeMaxTokens, reply)

JudgeCall(judge_model, prompt, reply) ==
    IF judge_model = "openai"
    THEN ClientCall("openai",
             << [role |-> "system",
                 content |-> <<"You are the Judge. Follow the user's instructions and respond in the requested format.">>],
                [role |-> "user", content |-> prompt] >>,
             JudgeTemperature, JudgeMaxTokens, reply)
    ELSE ClientCall("gemini", << [role |-> "prompt", content |-> prompt] >>,
             JudgeTemperature, JudgeMaxTokens, reply)

JudgeTitle(judge_model) ==
    IF judge_model = "openai"
    THEN <<"Judge - OpenAI (gpt-4.1-mini)">>
    ELSE <<"Judge - Gemini (gemini-2.0-flash-lite)">>

JudgeBody(winner_display, reason_raw, final_raw) ==
    <<"<p style=\"margin:4px 0;\"><span style=\"color:#1b5e20; font-weight:600;\">Winner:</span> ">>
    \o winner_display \o <<"</p>">>
    \o (IF reason_raw # <<>>
        THEN <<"<p style=\"margin:4px 0;\"><span style=\"color:#0d47a1; font-weight:600;\">Reason:</span> ">>
             \o reason_raw \o <<"</p>">>
        ELSE <<>>)
    \o <<"<p style=\"margin:4px 0;\"><span style=\"color:#e65100; font-weight:600;\">Final:</span> ">>
    \o final_raw \o <<"</p>">>

NodeJudge(w, inp) ==
    IF Missing(w.state, <<"question", "opening_a", "opening_b", "rebuttals_a",
                          "rebuttals_b">>)
    THEN [w EXCEPT !.err = "KeyError"]
    ELSE IF w.state["rebuttals_a"] = <<>> \/ w.state["rebuttals_b"] = <<>>
    THEN [w EXCEPT !.err = "IndexError"]
    ELSE IF Missing(w.state, <<"debater_a_model", "debater_b_model",
                               "judge_model">>)
    THEN [w EXCEPT !.err = "KeyError"]
    ELSE
    LET model_a == w.state["debater_a_model"]
        model_b == w.state["debater_b_model"]
        judge_model == w.state["judge_model"]
        prompt == JudgeInstructions \o <<"\n\n">>
                  \o DebateContext(w.state["question"], w.state["opening_a"],
                                   w.state["opening_b"],
                                   Last(w.state["rebuttals_a"]),
                                   Last(w.state["rebuttals_b"]))
        call == JudgeCall(judge_model, prompt, inp.judge)
        judge_raw == call.text
        reason_raw == ReasonRaw(judge_raw)
        final_raw == FinalRaw(judge_raw)
        winner_display == WinnerDisplay(WinnerRaw(judge_raw),
                                        ModelHumanName(model_a),
                                        ModelHumanName(model_b))
        sections == w.state["transcript_sections"]
            \o << <<"<h2>Judge's Summary</h2>">>,
                  HtmlBlock(JUDGE_COLOR, JudgeTitle(judge_model),
                            JudgeBody(winner_display, reason_raw, final_raw)) >>
    IN  IF ~call.ok
        THEN [w EXCEPT !.calls = Append(@, call), !.err = "GenerationError"]
        ELSE [w EXCEPT !.calls = Append(@, call),
                       !.state = Put(Put(Put(Put(@,
                            "winner", winner_display),
                            "final_answer", final_raw),
                            "judge_raw", judge_raw),
                            "transcript_sections", sections)]

\* node_assemble with the retrieved snippets added to the transcript.
NodeAssembleWithMemory(w, inp) ==
    [w EXCEPT !.state = Put(@, "transcript_markdown",
        Join(Get(w.state, "transcript_sections", <<>>)
             \o Get(w.state, "memory_snippets", <<>>), SectionSeparator))]
\* node_assemble replacing the list of sections by the joined transcript.
NodeAssembleCollapsing(w, inp) ==
    Eval(Join(Get(w.state, "transcript_sections", <<>>), SectionSeparator),
         LAMBDA transcript :
            [w EXCEPT !.state = Put(Put(@, "transcript_markdown", transcript),
                                    "transcript_sections", <<transcript>>)])

NodeAssemble(w, inp) ==
    [w EXCEPT !.state = Put(@, "transcript_markdown",
        Join(Get(w.state, "transcript_sections", <<>>), SectionSeparator))]

---------------------------------------------------------------------------
(* Stage execution *)

NodeFunction(name, w, inp) ==
    CASE name = "load_memory" -> NodeLoadMemory(w, inp)
      [] name = "opening" -> NodeOpening(w, inp)
      [] name = "rebuttal1" -> NodeRebuttalRound1(w, inp)
      [] name = "rebuttal2" -> NodeRebuttalRound2(w, inp)
      [] name = "judge" -> NodeJudge(w, inp)
      [] name = "store_memory" -> NodeStoreMemory(w, inp)
      [] name = "assemble" -> NodeAssemble(w, inp)

\* One call of a node function, with the events of its start and of its
\* return; a node that raises never returns.
CallNode(name, w, inp) ==
    Eval([w EXCEPT !.trace = Append(@, <<"start", name>>)], LAMBDA w0 :
        Eval(NodeFunction(name, w0, inp), LAMBDA w1 :
            IF w1.err # "none" THEN w1
            ELSE [w1 EXCEPT !.trace = Append(@, <<"end", name>>)]))

\* The node functions named by names called one after the other, up to the
\* first that raises.
RECURSIVE CallNodes(_, _, _)
CallNodes(names, w, inp) ==
    IF names = <<>> \/ w.err # "none" THEN w
    ELSE Eval(CallNode(Head(names), w, inp), LAMBDA w1 :
             CallNodes(Tail(names), w1, inp))

\* What the environment decides during the nodes named: the outcome of the
\* similarity query and its ranking, the replies of the generation service,
\* the outcome of collection.add.  env bounds the choices.
InputSet(names, coll, env) ==
    LET ns == {names[i] : i \in 1..Len(names)}
    IN  [query : IF "load_memory" \in ns THEN env.query ELSE {"ok"},
         rank : IF "load_memory" \in ns THEN Perms(Len(coll)) ELSE {<<>>},
         a : IF ns \cap {"opening", "rebuttal1", "rebuttal2"} # {}
             THEN env.debater ELSE {Failure},
         b : IF ns \cap {"opening", "rebuttal1", "rebuttal2"} # {}
             THEN env.debater ELSE {Failure},
         judge : IF "judge" \in ns THEN env.judge ELSE {Failure},
         add : IF "store_memory" \in ns THEN env.add ELSE {"ok"}]

World ==
    [state |-> state, store |-> store, nextId |-> nextId, calls |-> calls,
     memlog |-> memlog, trace |-> trace, err |-> err]

---------------------------------------------------------------------------
(* app/graph_runner.py: the compiled graph and run_debate *)

EntryPoint == "load_memory"

Edge(name) ==
    CASE name = "load_memory" -> "opening"
      [] name = "opening" -> "rebuttal1"
      [] name = "rebuttal1" -> "rebuttal2"
      [] name = "rebuttal2" -> "judge"
      [] name = "judge" -> "store_memory"
      [] name = "store_memory" -> "assemble"
      [] name = "assemble" -> "END"

\* A new call may begin when no call is in progress: before the first, after
\* one has returned or raised, or when the consumer of a suspended generator
\* has dropped it.
CanStart(env) ==
    /\ runs < env.runs
    /\ pc \in {"idle", "returned", "raised", "suspended"}

RunDebateQuestion(question_arg) == Strip(question_arg)

BatchInitialState(question, creativity) ==
    [question |-> question, temperature |-> creativity,
     transcript_sections |-> <<>>, memory_snippets |-> <<>>]

\* The tuple run_debate builds from the graph's final state.
RunDebateResult(final_state) ==
    << FinalMd(Get(final_state, "winner", WinnerUnknown),
               Strip(Get(final_state, "final_answer", <<>>))),
       Get(final_state, "transcript_markdown", <<>>) >>

\* run_debate is called: the guard, then the initial state handed to
\* compiled_graph.invoke.
RunDebate(env, question_arg, creativity) ==
    /\ CanStart(env)
    /\ runs' = runs + 1
    /\ mode' = "batch"
    /\ args' = [question |-> question_arg, creativity |-> creativity,
                debater_a_model |-> "", debater_b_model |-> "",
                judge_model |-> ""]
    /\ calls' = <<>> /\ memlog' = <<>> /\ trace' = <<>> /\ err' = "none"
    /\ yields' = <<>> /\ seg' = 0
    /\ \E question \in {RunDebateQuestion(question_arg)} :
           IF question = <<>>
           THEN /\ pc' = "returned"
                /\ result' = <<Placeholder, <<>>>>
                /\ state' = EmptyDict
                /\ node' = ""
           ELSE /\ pc' = "running"
                /\ result' = <<>>
                /\ state' = BatchInitialState(question, creativity)
                /\ node' = EntryPoint
    /\ UNCHANGED <<store, nextId>>

\* compiled_graph.invoke executes the node the graph is at and follows its
\* edge; at END run_debate builds its result.  An exception of a node ends
\* the call.
GraphStep(env) ==
    /\ mode = "batch" /\ pc = "running"
    /\ \E inp \in InputSet(<<node>>, store, env) :
         \E w \in {CallNode(node, World, inp)} :
             /\ state' = w.state /\ store' = w.store /\ nextId' = w.nextId
             /\ calls' = w.calls /\ memlog' = w.memlog /\ trace' = w.trace
             /\ err' = w.err
             /\ IF w.err # "none"
                THEN pc' = "raised" /\ node' = node /\ result' = <<>>
                ELSE IF Edge(node) = "END"
                THEN /\ pc' = "returned" /\ node' = "END"
                     /\ result' = RunDebateResult(w.state)
                ELSE pc' = "running" /\ node' = Edge(node) /\ result' = <<>>
    /\ UNCHANGED <<runs, mode, seg, args, yields>>

---------------------------------------------------------------------------
(* app/ui.py: _render_outputs and the generator debate_live *)

\* _render_outputs with show_final ignored.
RenderOutputsAlwaysFinal(st, show_final) ==
    LET transcript_html ==
            Join(Get(st, "transcript_sections", <<>>), SectionSeparator)
        winner == Get(st, "winner", WinnerUnknown)
        final_answer == Strip(Get(st, "final_answer", <<>>))
    IN  << IF final_answer # <<>> THEN FinalMd(winner, final_answer)
           ELSE NotAvailable,
           transcript_html >>

RenderOutputs(st, show_final) ==
    LET transcript_html ==
            Join(Get(st, "transcript_sections", <<>>), SectionSeparator)
        winner == Get(st, "winner", WinnerUnknown)
        final_answer == Strip(Get(st, "final_answer", <<>>))
        final_md == IF show_final
                    THEN IF final_answer # <<>>
                         THEN FinalMd(winner, final_answer)
                         ELSE NotAvailable
                    ELSE InProgress
    IN  <<final_md, transcript_html>>

\* debate_live with the transcript assembled before the memory is stored.
LiveProgramAssembleFirst ==
    << [nodes |-> <<"load_memory">>, show_final |-> FALSE],
       [nodes |-> <<"opening">>, show_final |-> FALSE],
       [nodes |-> <<"rebuttal1">>, show_final |-> FALSE],
       [nodes |-> <<"rebuttal2">>, show_final |-> FALSE],
       [nodes |-> <<"judge">>, show_final |-> TRUE],
       [nodes |-> <<"assemble", "store_memory">>, show_final |-> TRUE] >>

\* debate_live with a yield between node_store_memory and node_assemble.
LiveProgramSeven ==
    << [nodes |-> <<"load_memory">>, show_final |-> FALSE],
       [nodes |-> <<"opening">>, show_final |-> FALSE],
       [nodes |-> <<"rebuttal1">>, show_final |-> FALSE],
       [nodes |-> <<"rebuttal2">>, show_final |-> FALSE],
       [nodes |-> <<"judge">>, show_final |-> TRUE],
       [nodes |-> <<"store_memory">>, show_final |-> TRUE],
       [nodes |-> <<"assemble">>, show_final |-> TRUE] >>

\* The body of debate_live after its guard: the node functions called
\* between one yield and the next, and the show_final of that yield.
LiveProgram ==
    << [nodes |-> <<"load_memory">>, show_final |-> FALSE],
       [nodes |-> <<"opening">>, show_final |-> FALSE],
       [nodes |-> <<"rebuttal1">>, show_final |-> FALSE],
       [nodes |-> <<"rebuttal2">>, show_final |-> FALSE],
       [nodes |-> <<"judge">>, show_final |-> TRUE],
       [nodes |-> <<"store_memory", "assemble">>, show_final |-> TRUE] >>

\* The guard of debate_live without strip().
DebateLiveQuestionUnstripped(question_arg) == question_arg

DebateLiveQuestion(question_arg) == Strip(question_arg)

LiveInitialState(question, a) ==
    [question |-> question, temperature |-> a.creativity,
     transcript_sections |-> <<>>, memory_snippets |-> <<>>,
     debater_a_model |-> a.debater_a_model,
     debater_b_model |-> a.debater_b_model,
     judge_model |-> a.judge_model]

\* debate_live is called: a generator object is made, none of its body runs.
DebateLive(env, question_arg, creativity, debater_a_model, debater_b_model, judge_model) ==
    /\ CanStart(env)
    /\ runs' = runs + 1
    /\ mode' = "live"
    /\ pc' = "suspended"
    /\ seg' = 0
    /\ args' = [question |-> question_arg, creativity |-> creativity,
                debater_a_model |-> debater_a_model,
                debater_b_model |-> debater_b_model,
                judge_model |-> judge_model]
    /\ state' = EmptyDict
    /\ calls' = <<>> /\ memlog' = <<>> /\ trace' = <<>> /\ err' = "none"
    /\ yields' = <<>> /\ result' = <<>> /\ node' = ""
    /\ UNCHANGED <<store, nextId>>

\* debate_live running one stage ahead of the snapshot it yields.
LiveSegmentEager(env, k, from_state) ==
    \E nodes \in {LiveProgram[k].nodes
                  \o (IF k < Len(LiveProgram) THEN LiveProgram[k + 1].nodes
                      ELSE <<>>)} :
      \E inp \in InputSet(nodes, store, env) :
        \E w \in {CallNodes(nodes, [World EXCEPT !.state = from_state], inp)} :
            /\ state' = w.state /\ store' = w.store /\ nextId' = w.nextId
            /\ calls' = w.calls /\ memlog' = w.memlog /\ trace' = w.trace
            /\ err' = w.err
            /\ IF w.err # "none"
               THEN pc' = "raised" /\ seg' = seg /\ yields' = yields
               ELSE /\ pc' = "suspended" /\ seg' = k
                    /\ yields' = Append(yields,
                           RenderOutputs(w.state, LiveProgram[k].show_final))

\* debate_live with the node functions' exceptions caught: the snapshot is
\* yielded and the generator goes on.
LiveSegmentCatching(env, k, from_state) ==
    \E inp \in InputSet(LiveProgram[k].nodes, store, env) :
        \E w \in {CallNodes(LiveProgram[k].nodes,
                          [World EXCEPT !.state = from_state], inp)} :
            /\ state' = w.state /\ store' = w.store /\ nextId' = w.nextId
            /\ calls' = w.calls /\ memlog' = w.memlog /\ trace' = w.trace
            /\ err' = w.err
            /\ pc' = "suspended" /\ seg' = k
            /\ yields' = Append(yields,
                   RenderOutputs(w.state, LiveProgram[k].show_final))

\* The generator runs from the yield it is suspended at to yield number k:
\* an exception of a node function leaves the generator, which is then over.
LiveSegment(env, k, from_state) ==
    \E inp \in InputSet(LiveProgram[k].nodes, store, env) :
        \E w \in {CallNodes(LiveProgram[k].nodes,
                          [World EXCEPT !.state = from_state], inp)} :
            /\ state' = w.state /\ store' = w.store /\ nextId' = w.nextId
            /\ calls' = w.calls /\ memlog' = w.memlog /\ trace' = w.trace
            /\ err' = w.err
            /\ IF w.err # "none"
               THEN pc' = "raised" /\ seg' = seg /\ yields' = yields
               ELSE /\ pc' = "suspended" /\ seg' = k
                    /\ yields' = Append(yields,
                           RenderOutputs(w.state, LiveProgram[k].show_final))

\* First pull, blank question: the placeholder is yielded.
LivePlaceholder ==
    /\ mode = "live" /\ pc = "suspended" /\ seg = 0
    /\ DebateLiveQuestion(args.question) = <<>>
    /\ yields' = <<<<Placeholder, <<>>>>>>
    /\ seg' = -1
    /\ UNCHANGED <<store, nextId, runs, mode, pc, node, args, state, calls,
                   memlog, trace, err, result>>

\* First pull, other questions: the state is initialised and the generator
\* runs to its first yield.
LiveStart(env) ==
    /\ mode = "live" /\ pc = "suspended" /\ seg = 0
    /\ DebateLiveQuestion(args.question) # <<>>
    /\ LiveSegment(env, 1,
                   LiveInitialState(DebateLiveQuestion(args.question), args))
    /\ UNCHANGED <<runs, mode, node, args, result>>

\* A later pull: the generator runs to its next yield.
LiveResume(env) ==
    /\ mode = "live" /\ pc = "suspended"
    /\ seg \in 1..(Len(LiveProgram) - 1)
    /\ LiveSegment(env, seg + 1, state)
    /\ UNCHANGED <<runs, mode, node, args, result>>

\* A pull after the last yield: the generator returns.
LiveReturn ==
    /\ mode = "live" /\ pc = "suspended"
    /\ seg \in {-1, Len(LiveProgram)}
    /\ pc' = "returned"
    /\ UNCHANGED <<store, nextId, runs, mode, node, seg, args, state, calls,
                   memlog, trace, err, yields, result>>

---------------------------------------------------------------------------
(* The process: runs one after the other over one persistent collection *)

NoArgs ==
    [question |-> <<>>, creativity |-> 0, debater_a_model |-> "",
     debater_b_model |-> "", judge_model |-> ""]

Init ==
    /\ store = <<>>
    /\ nextId = 1
    /\ runs = 0
    /\ mode = "none"
    /\ pc = "idle"
    /\ node = ""
    /\ seg = 0
    /\ args = NoArgs
    /\ state = EmptyDict
    /\ calls = <<>>
    /\ memlog = <<>>
    /\ trace = <<>>
    /\ err = "none"
    /\ yields = <<>>
    /\ result = <<>>

\* The environment of Spec: any reply of the bounded sets, either outcome of
\* every memory operation, MaxRuns calls.
SpecEnv ==
    [debater |-> DebaterReplies, judge |-> JudgeReplies,
     query |-> {"ok", "raise"}, add |-> {"ok", "raise"}, runs |-> MaxRuns]

Next ==
    \/ \E q \in Questions, c \in Creativities : RunDebate(SpecEnv, q, c)
    \/ GraphStep(SpecEnv)
    \/ \E q \in Questions, c \in Creativities, a \in DebaterModels,
          b \in DebaterModels, j \in JudgeModels :
            DebateLive(SpecEnv, q, c, a, b, j)
    \/ LivePlaceholder
    \/ LiveStart(SpecEnv)
    \/ LiveResume(SpecEnv)
    \/ LiveReturn

Spec == Init /\ [][Next]_vars

---------------------------------------------------------------------------
(* The judge's parser under a wider range of judge replies: streaming runs *)
(* in which every call succeeds and only the judge's text varies.          *)

JudgeA ==
    <<"W", "i", "n", "n", "e", "r", ":", " ", "A", "\n", "R", "e", "a", "s", "o", "n",
      ":", " ", "r", "\n", "F", "i", "n", "a", "l", ":", " ", "u">>

JudgeDebaterB ==
    <<"W", "i", "n", "n", "e", "r", ":", " ", "D", "e", "b", "a", "t", "e", "r", " ",
      "B", "\n", "F", "i", "n", "a", "l", ":", " ", "u">>

JudgeDebaterA ==
    <<"W", "i", "n", "n", "e", "r", ":", " ", "D", "e", "b", "a", "t", "e", "r", " ",
      "A", "\n", "F", "i", "n", "a", "l", ":", " ", "u">>

JudgeBoth ==
    <<"W", "i", "n", "n", "e", "r", ":", " ", "A", ",", " ", "B", "\n", "F", "i", "n",
      "a", "l", ":", " ", "u">>

JudgeNeither ==
    <<"W", "i", "n", "n", "e", "r", ":", " ", "?", "\n", "F", "i", "n", "a", "l", ":",
      " ", "u">>

JudgeUpper ==
    <<"W", "I", "N", "N", "E", "R", ":", " ", "b", "\n", "F", "I", "N", "A", "L", ":",
      " ", "u">>

JudgeExample ==
    <<"W", "i", "n", "n", "e", "r", ":", " ", "B", "\n", "R", "e", "a", "s", "o", "n",
      ":", " ", "c", "l", "e", "a", "r", "e", "r", " ", "e", "x", "a", "m", "p", "l",
      "e", "s", "\n", "F", "i", "n", "a", "l", ":", " ", "U", "s", "e", " ", "X", ".">>

\* Values of the three fields as a judge may write them, raw, and as they
\* read once the surrounding blanks, line ends, dashes and colons are gone.
WinnerValues ==
    { [raw |-> <<" ", "B">>, val |-> <<"B">>, side |-> "b"],
      [raw |-> <<" ", " ", "A", " ">>, val |-> <<"A">>, side |-> "a"] }

ReasonValues ==
    { [raw |-> <<" ", "c", "l", "e", "a", "r", "e", "r", " ", "e", "x", "a", "m", "p", "l", "e",
      "s">>,
       val |-> <<"c", "l", "e", "a", "r", "e", "r", " ", "e", "x", "a", "m", "p", "l", "e", "s">>],
      [raw |-> <<"\n", "-", " ", "i", "t", " ", "w", "a", "s", "\n", "b", "e", "t", "t", "e", "r",
      ":", " ", "-">>,
       val |-> <<"i", "t", " ", "w", "a", "s", "\n", "b", "e", "t", "t", "e", "r">>] }

FinalValues ==
    { [raw |-> <<" ", "U", "s", "e", " ", "X", ".">>,
       val |-> <<"U", "s", "e", " ", "X", ".">>],
      [raw |-> <<"\n", "-", " ", "g", "o", ":", " ", "n", "o", "w", " ", "-">>,
       val |-> <<"g", "o", ":", " ", "n", "o", "w">>] }

WellFormed(w, r, f) ==
    <<"W", "i", "n", "n", "e", "r", ":">> \o w
    \o <<"\n", "R", "e", "a", "s", "o", "n", ":">> \o r
    \o <<"\n", "F", "i", "n", "a", "l", ":">> \o f

WellFormedTexts ==
    { WellFormed(w.raw, r.raw, f.raw) :
        w \in WinnerValues, r \in ReasonValues, f \in FinalValues }

JudgeNoLabels ==
    <<"U", "s", "e", " ", "X", ".", "\n", "I", "t", " ", "i", "s", " ", "s", "i", "m",
      "p", "l", "e", "r">>

JudgeNoLabelsCR ==
    <<"U", "s", "e", " ", "X", ".", "\r", "\n", "I", "t", " ", "i", "s", " ", "s", "i",
      "m", "p", "l", "e", "r">>

JudgeFinalEmpty ==
    <<"W", "i", "n", "n", "e", "r", ":", " ", "B", "\n", "F", "i", "n", "a", "l", ":">>

JudgeTieB ==
    <<"W", "i", "n", "n", "e", "r", ":", " ", "t", "i", "e", " ", "(", "B", ")", "\n",
      "F", "i", "n", "a", "l", ":", " ", "v">>

JudgeTieAB ==
    <<"W", "i", "n", "n", "e", "r", ":", " ", "T", "i", "e", " ", "b", "e", "t", "w",
      "e", "e", "n", " ", "A", " ", "a", "n", "d", " ", "B", "\n", "F", "i", "n", "a",
      "l", ":", " ", "v">>

ParseJudgeTexts ==
    { JudgeA, JudgeB, JudgeDebaterA, JudgeDebaterB, JudgeBoth, JudgeNeither,
      JudgeUpper, JudgeTie, JudgeExample, JudgeNoLabels, JudgeNoLabelsCR,
      JudgeFinalEmpty, JudgeTieB, JudgeTieAB }
    \cup WellFormedTexts

ParseEnv ==
    [debater |-> {[ok |-> TRUE, text |-> <<"x">>]},
     judge |-> {[ok |-> TRUE, text |-> t] : t \in ParseJudgeTexts},
     query |-> {"ok"}, add |-> {"ok"}, runs |-> 1]

ParseNext ==
    \/ \E q \in {x \in Questions : Strip(x) # <<>>}, c \in Creativities,
          a \in DebaterModels, b \in DebaterModels, j \in JudgeModels :
            DebateLive(ParseEnv, q, c, a, b, j)
    \/ LiveStart(ParseEnv)
    \/ LiveResume(ParseEnv)
    \/ LiveReturn

ParseSpec == Init /\ [][ParseNext]_vars

---------------------------------------------------------------------------
(* app/memory.py on its own: store_debate_memory and load_relevant_memories *)
(* called with any arguments on the persistent collection.                 *)

MaxStore == 2

\* A text of SnippetMax characters: two words with blanks between them.
LongText == [i \in 1..SnippetMax |-> IF i \in {1, SnippetMax} THEN "x" ELSE " "]

MemoryQuestions == { <<>>, <<"q">>, <<" ", "p", "\n">> }

MemoryFinals == { <<" ">>, <<"f", "\n">>, LongText }

MemoryWinners == { WinnerTie, LabelGrok }

MemoryTopKs == { 1, TopK }

\* A call of store_debate_memory.
StoreCall(question, final_answer, winner, add) ==
    /\ mode \in {"none", "memory"}
    /\ nextId <= MaxStore
    /\ \E r \in {StoreDebateMemory(question, final_answer, winner, store,
                                   nextId, [add |-> add])} :
          /\ store' = r.coll
          /\ nextId' = r.id
          /\ memlog' = r.ops
          /\ err' = IF r.raised THEN "StoreError" ELSE "none"
          /\ pc' = IF r.raised THEN "raised" ELSE "returned"
    /\ mode' = "memory"
    /\ args' = [op |-> "store", question |-> question,
                final_answer |-> final_answer, winner |-> winner,
                add |-> add]
    /\ result' = <<>>
    /\ UNCHANGED <<runs, node, seg, state, calls, trace, yields>>

\* A call of load_relevant_memories; result is the returned list.
LoadCall(question, top_k, query) ==
    /\ mode \in {"none", "memory"}
    /\ \E rank \in Perms(Len(store)) :
        \E r \in {LoadRelevantMemories(question, top_k, store,
                                      [query |-> query, rank |-> rank])} :
          /\ result' = r.ret
          /\ memlog' = r.ops
          /\ err' = IF r.raised THEN "QueryError" ELSE "none"
          /\ pc' = IF r.raised THEN "raised" ELSE "returned"
          /\ args' = [op |-> "load", question |-> question,
                      top_k |-> top_k, query |-> query, rank |-> rank]
    /\ mode' = "memory"
    /\ UNCHANGED <<store, nextId, runs, node, seg, state, calls, trace,
                   yields>>

MemoryNext ==
    \/ \E q \in MemoryQuestions, f \in MemoryFinals, w \in MemoryWinners,
          add \in {"ok", "raise"} : StoreCall(q, f, w, add)
    \/ \E q \in MemoryQuestions, k \in MemoryTopKs, query \in {"ok"} :
          LoadCall(q, k, query)

MemorySpec == Init /\ [][MemoryNext]_vars

---------------------------------------------------------------------------
(* Streaming runs against a generation stub: every debater call returns the *)
(* same text, every judge call the same verdict, the memory store works.    *)

StubCreativities == {0, 6, 10}

StubDebaterReply == [ok |-> TRUE, text |-> <<"y", "\n", "z">>]

StubJudgeReply == [ok |-> TRUE, text |-> JudgeB]

StubEnv ==
    [debater |-> {StubDebaterReply}, judge |-> {StubJudgeReply},
     query |-> {"ok"}, add |-> {"ok"}, runs |-> 2]

StubNext ==
    \/ \E q \in {x \in Questions : Strip(x) # <<>>}, c \in StubCreativities,
          a \in DebaterModels, b \in DebaterModels, j \in JudgeModels :
            DebateLive(StubEnv, q, c, a, b, j)
    \/ LiveStart(StubEnv)
    \/ LiveResume(StubEnv)
    \/ LiveReturn

StubSpec == Init /\ [][StubNext]_vars

---------------------------------------------------------------------------
(* Properties *)

IsBlank(q) == \A i \in 1..Len(q) : q[i] \in Whitespace

IsPrefix(s, t) == Len(s) <= Len(t) /\ s = SubSeq(t, 1, Len(s))

\* The events of a run in which the seven stages execute in order.
FullTrace ==
    << <<"start", "load_memory">>, <<"end", "load_memory">>,
       <<"start", "opening">>, <<"end", "opening">>,
       <<"start", "rebuttal1">>, <<"end", "rebuttal1">>,
       <<"start", "rebuttal2">>, <<"end", "rebuttal2">>,
       <<"start", "judge">>, <<"end", "judge">>,
       <<"start", "store_memory">>, <<"end", "store_memory">>,
       <<"start", "assemble">>, <<"end", "assemble">> >>

Ended(name) == \E i \in 1..Len(trace) : trace[i] = <<"end", name>>

LiveRun == mode = "live" /\ ~IsBlank(args.question)

BatchRun == mode = "batch" /\ ~IsBlank(args.question)

\* C1: for a question that is empty or only whitespace, run_debate returns
\* the placeholder with an empty transcript at once and debate_live yields
\* that placeholder and returns; no stage runs, no generation call is made,
\* and the memory store is neither queried nor written.
C1_BlankQuestion ==
    (mode # "none" /\ IsBlank(args.question)) =>
        /\ trace = <<>> /\ calls = <<>> /\ memlog = <<>> /\ err = "none"
        /\ state = EmptyDict
        /\ mode = "batch" =>
              pc = "returned" /\ result = <<Placeholder, <<>>>>
        /\ mode = "live" =>
              /\ pc \in {"suspended", "returned"}
              /\ yields = IF seg = 0 THEN <<>> ELSE <<<<Placeholder, <<>>>>>>
              /\ pc = "returned" => seg # 0

C1_Witness ==
    /\ mode = "live" /\ pc = "returned"
    /\ args.question = <<" ", "\n">>
    /\ yields = <<<<Placeholder, <<>>>>>>
    /\ store # <<>>

\* C2: in a run with a non-empty question, batch or streaming, the stages
\* that execute form a prefix of MemoryLoad, Opening, Rebuttal(1),
\* Rebuttal(2), Judgment, MemoryStore, Assemble, each started only after the
\* previous one completed; a stage is left uncompleted only by an exception.
C2_StageOrder ==
    (BatchRun \/ LiveRun) =>
        /\ IsPrefix(trace, FullTrace)
        /\ Len(trace) % 2 = 1 => pc = "raised" /\ err # "none"

C2_Witness == LiveRun /\ trace = FullTrace /\ pc = "returned"

\* C3: a batch run on a non-empty question ends either by returning a
\* complete verdict and transcript or by raising a failure of a generation
\* call; when every generation call succeeds it returns.
C3_BatchOutcome ==
    (BatchRun /\ pc \in {"returned", "raised"}) =>
        \/ /\ pc = "returned"
           /\ Ended("assemble")
           /\ result = RunDebateResult(state)
        \/ /\ pc = "raised" /\ err = "GenerationError"
           /\ calls # <<>> /\ ~calls[Len(calls)].ok

\* C4 as stated: a streaming run on a non-empty question in which no call
\* fails yields seven snapshots, one after each stage.
C4_SevenSnapshots ==
    (LiveRun /\ pc = "returned") => Len(yields) = 7

\* C4: a streaming run on a non-empty question yields one snapshot after each
\* of MemoryLoad, Opening, Rebuttal 1, Rebuttal 2 and Judgment, and a single
\* one after MemoryStore and Assemble have both run: six in all when no call
\* fails, after which it terminates.  Each snapshot carries the transcript
\* sections of the stages completed so far.
C4_SixSnapshots ==
    (LiveRun /\ pc \in {"suspended", "returned"}) =>
        /\ seg \in 0..6
        /\ Len(yields) = seg
        /\ trace = SubSeq(FullTrace, 1, IF seg = 6 THEN 14 ELSE 2 * seg)
        /\ seg > 0 =>
              yields[seg][2] = Join(Get(state, "transcript_sections", <<>>),
                                    SectionSeparator)
        /\ pc = "returned" => seg = 6

C4_Witness ==
    LiveRun /\ pc = "returned" /\ Len(yields) = 6 /\ trace = FullTrace

\* C5 as stated: in a completed streaming run the snapshots before the last
\* two show the in-progress placeholder and the last two show the winner and
\* the final answer set by the Judgment stage.
C5_LastTwoShowVerdict ==
    (LiveRun /\ pc = "returned") =>
        \A k \in 1..Len(yields) :
            yields[k][1] =
                IF k <= Len(yields) - 2 THEN InProgress
                ELSE FinalMd(Get(state, "winner", WinnerUnknown),
                             Strip(Get(state, "final_answer", <<>>)))

\* C5: in a streaming run the snapshots yielded before the Judgment stage has
\* completed show the in-progress placeholder; the two yielded after it show
\* the winner and the final answer set by the Judgment stage when that final
\* answer is not blank, and the notice "Final answer not available." when it
\* is blank, as after an empty judge reply.
C5_FinalPane ==
    LiveRun =>
        \A k \in 1..Len(yields) :
            yields[k][1] =
                IF k <= 4 THEN InProgress
                ELSE IF Strip(state["final_answer"]) # <<>>
                THEN FinalMd(state["winner"], Strip(state["final_answer"]))
                ELSE NotAvailable

C5_Witness ==
    /\ LiveRun /\ pc = "returned" /\ Len(yields) = 6
    /\ yields[4][1] = InProgress
    /\ yields[5][1] = FinalMd(LabelGrok, <<"u">>)
    /\ yields[6][1] = yields[5][1]

\* C6: when a debater or judge call fails, the run ends with that failure at
\* the stage of the call: the failed call is the last call made and the only
\* failed one, the stage it belongs to is the last one started, no memory
\* write has been made, and the generator has yielded only the snapshots of
\* the stages completed before.
C6_GenerationFailure ==
    err = "GenerationError" =>
        /\ pc = "raised"
        /\ calls # <<>>
        /\ \A i \in 1..Len(calls) : calls[i].ok <=> i < Len(calls)
        /\ trace # <<>>
        /\ trace[Len(trace)][1] = "start"
        /\ trace[Len(trace)][2] \in {"opening", "rebuttal1", "rebuttal2",
                                     "judge"}
        /\ \A i \in 1..Len(memlog) : memlog[i].op # "add"
        /\ result = <<>>
        /\ mode = "live" =>
              Len(yields) = seg /\ Len(trace) = 2 * seg + 1

C6_Witness ==
    /\ err = "GenerationError" /\ mode = "live"
    /\ Len(calls) = 7 /\ calls[7].backend = "gemini"
    /\ Len(yields) = 4

\* C7: a failure of the memory-store write does not fail the run: the
\* MemoryStore stage completes and no exception reaches the caller.
C7_StoreFailureAbsorbed ==
    (\E i \in 1..Len(memlog) :
        memlog[i].op = "add" /\ memlog[i].outcome = "raise") =>
        err = "none" /\ Ended("store_memory")

\* C8: when the backend raises during retrieval, load_relevant_memories
\* returns the empty sequence without raising: the MemoryLoad stage completes
\* with memory_snippets empty, the system instructions of both opening calls
\* carry no memory block, and no exception of the retrieval ends the run.
C8_RetrievalFailure ==
    (\E i \in 1..Len(memlog) :
        memlog[i].op = "query" /\ memlog[i].outcome = "raise") =>
        /\ err # "QueryError"
        /\ Ended("load_memory")
        /\ Has(state, "memory_snippets")
        /\ state["memory_snippets"] = <<>>
        /\ Len(calls) >= 1 =>
              calls[1].messages[1].content = OpeningSystemA(<<>>)
        /\ Len(calls) >= 2 =>
              calls[2].messages[1].content = OpeningSystemB(<<>>)
        /\ \A i \in 1..2 :
              i <= Len(calls) =>
                  ~Contains(calls[i].messages[1].content,
                            <<"\nYou also have access to some memory:\n">>)

C8_Witness ==
    /\ LiveRun /\ pc = "returned" /\ trace = FullTrace
    /\ memlog[1].op = "query" /\ memlog[1].outcome = "raise"
    /\ runs = 2 /\ Len(store) = 2

\* C9: rebuttals_a and rebuttals_b have equal length whenever a stage has
\* completed: both are empty once Opening has completed, hold the round's
\* two rebuttal texts after Rebuttal(1), both rounds' after Rebuttal(2), and
\* no later stage changes them.
C9_Rebuttals ==
    LET n == IF Ended("rebuttal2") THEN 2
             ELSE IF Ended("rebuttal1") THEN 1 ELSE 0
    IN  IF Ended("opening")
        THEN /\ Has(state, "rebuttals_a") /\ Has(state, "rebuttals_b")
             /\ Len(state["rebuttals_a"]) = n
             /\ Len(state["rebuttals_b"]) = n
             /\ \A i \in 1..n :
                   /\ state["rebuttals_a"][i] = calls[2 * i + 1].text
                   /\ state["rebuttals_b"][i] = calls[2 * i + 2].text
        ELSE ~Has(state, "rebuttals_a") /\ ~Has(state, "rebuttals_b")

C9_Witness ==
    /\ LiveRun /\ pc = "returned" /\ Ended("assemble")
    /\ state["rebuttals_a"] = <<<<"x">>, <<"y", "\n", "z">>>>
    /\ state["rebuttals_b"] = <<<<"y", "\n", "z">>, <<"x">>>>

Alphanumeric ==
    { "a", "b", "c", "d", "e", "f", "g", "h", "i", "j", "k", "l", "m", "n",
      "o", "p", "q", "r", "s", "t", "u", "v", "w", "x", "y", "z",
      "0", "1", "2", "3", "4", "5", "6", "7", "8", "9" }

\* The letter side stands alone as a word of wl.
NamesSide(wl, side) ==
    \E i \in 1..Len(wl) :
        /\ wl[i] = side
        /\ i = 1 \/ wl[i - 1] \notin Alphanumeric
        /\ i = Len(wl) \/ wl[i + 1] \notin Alphanumeric

\* C10: when the lower-cased Winner field does not contain "tie", the winner
\* is side B's display name if the field names side B ("B", "Debater B") and
\* not side A, side A's display name if it names side A ("A", "Debater A")
\* and not side B, and Unknown if it names both sides or neither.
C10_WinnerBySide ==
    (Has(state, "judge_raw")
        /\ ~Contains(Lower(WinnerRaw(state["judge_raw"])), <<"t", "i", "e">>))
    => LET wl == Lower(WinnerRaw(state["judge_raw"]))
           label_a == ModelHumanName(state["debater_a_model"])
           label_b == ModelHumanName(state["debater_b_model"])
       IN  state["winner"] =
               IF NamesSide(wl, "b") /\ ~NamesSide(wl, "a") THEN label_b
               ELSE IF NamesSide(wl, "a") /\ ~NamesSide(wl, "b") THEN label_a
               ELSE WinnerUnknown


Judged == Has(state, "judge_raw")

LabelA == ModelHumanName(state["debater_a_model"])

LabelB == ModelHumanName(state["debater_b_model"])

\* The judge's block of the transcript for the fields given.
JudgeSection(winner, reason, final) ==
    HtmlBlock(JUDGE_COLOR, JudgeTitle(state["judge_model"]),
              JudgeBody(winner, reason, final))

JudgeSectionIs(winner, reason, final) ==
    \E i \in 1..Len(state["transcript_sections"]) :
        state["transcript_sections"][i] = JudgeSection(winner, reason, final)

WithoutCarriageReturns(s) == SelectSeq(s, LAMBDA c : c # "\r")

FinalFieldEmpty == Extract(RemoveCR(state["judge_raw"]), <<"f", "i", "n", "a", "l">>) = <<>>

NoLabelTexts == { JudgeNoLabels, JudgeNoLabelsCR }

\* C12 as stated: whenever the Final field is absent or empty after
\* extraction, final_answer is the entire raw judge text, trimmed, with no
\* character lost; for text without any label the winner is Unknown.
C12_FallbackWholeText ==
    (Judged /\ FinalFieldEmpty) =>
        /\ state["final_answer"] = Strip(state["judge_raw"])
        /\ state["judge_raw"] \in NoLabelTexts =>
              state["winner"] = WinnerUnknown

\* C12: whenever the Final field is absent or empty after extraction,
\* final_answer is the raw judge text with its carriage returns removed,
\* trimmed of surrounding whitespace, no other character being lost; for
\* text without any label the winner is Unknown.
C12_FallbackWithoutCR ==
    (Judged /\ FinalFieldEmpty) =>
        /\ state["final_answer"] =
              Strip(WithoutCarriageReturns(state["judge_raw"]))
        /\ state["judge_raw"] \in NoLabelTexts =>
              state["winner"] = WinnerUnknown

C12_Witness ==
    /\ Judged /\ state["judge_raw"] = JudgeNoLabelsCR
    /\ state["winner"] = WinnerUnknown
    /\ Len(state["final_answer"]) = Len(JudgeNoLabelsCR) - 1

\* C13: whenever the extracted Winner field, lower-cased, contains "tie",
\* the winner is Tie, whatever else the field contains.
C13_TieFirst ==
    (Judged /\ Contains(Lower(WinnerRaw(state["judge_raw"])),
                        <<"t", "i", "e">>))
    => state["winner"] = WinnerTie

C13_Witness ==
    Judged /\ state["judge_raw"] = JudgeTieB /\ state["winner"] = WinnerTie


\* The display name that names a backend.
BackendLabel(backend) ==
    CASE backend = "grok" -> LabelGrok
      [] backend = "openai" -> LabelOpenAI
      [] OTHER -> <<>>

\* C14: when the verdict names a side, the winner shown is the label of the
\* model key given to that side for this run, and for every key a debater
\* can be given ("openai", "grok") that label names the backend that served
\* every call of that side: A's opening and rebuttals, B's opening and
\* rebuttals.
C14_WinnerNamesBackend ==
    Judged =>
        /\ \A i \in {1, 3, 5} :
              BackendLabel(calls[i].backend)
                  = ModelHumanName(args.debater_a_model)
        /\ \A i \in {2, 4, 6} :
              BackendLabel(calls[i].backend)
                  = ModelHumanName(args.debater_b_model)
        /\ state["judge_raw"] \in {JudgeA} =>
              \A i \in {1, 3, 5} :
                  state["winner"] = BackendLabel(calls[i].backend)
        /\ state["judge_raw"] \in {JudgeB, JudgeExample} =>
              \A i \in {2, 4, 6} :
                  state["winner"] = BackendLabel(calls[i].backend)

C14_Witness ==
    /\ Judged /\ state["judge_raw"] = JudgeB
    /\ args.debater_a_model = "openai" /\ args.debater_b_model = "grok"
    /\ state["winner"] = LabelGrok /\ calls[6].backend = "grok"


Ids(coll) == {coll[i].id : i \in 1..Len(coll)}

\* C15: store_debate_memory writes nothing when the question or the final
\* answer is empty or only whitespace; otherwise, the backend accepting the
\* write, it appends exactly one record with a fresh identifier holding the
\* question, the winner and the final answer.  No call modifies or removes
\* an existing record.
C15_StoreFrame ==
    [][ /\ IsPrefix(store, store')
        /\ (mode' = "memory" /\ args'.op = "load") => store' = store
        /\ (mode' = "memory" /\ args'.op = "store") =>
              IF IsBlank(args'.question) \/ IsBlank(args'.final_answer)
              THEN store' = store /\ memlog' = <<>>
              ELSE IF args'.add = "raise"
              THEN store' = store
              ELSE /\ Len(store') = Len(store) + 1
                   /\ store'[Len(store')].id \notin Ids(store)
                   /\ store'[Len(store')].winner = args'.winner
                   /\ store'[Len(store')].document =
                        <<"Q", "u", "e", "s", "t", "i", "o", "n", ":", " ">>
                        \o Strip(args'.question)
                        \o <<"\n", "W", "i", "n", "n", "e", "r", ":", " ">>
                        \o args'.winner
                        \o <<"\n", "F", "i", "n", "a", "l", " ", "a", "n",
                             "s", "w", "e", "r", ":", "\n">>
                        \o Strip(args'.final_answer)
      ]_vars

C15_Witness ==
    /\ mode = "memory" /\ args.op = "store" /\ args.add = "ok"
    /\ args.question = <<" ", "p", "\n">> /\ args.final_answer = <<"f", "\n">>
    /\ Len(store) = 2 /\ store[1].id # store[2].id
    /\ store[2].winner = args.winner


\* The record was stored under the question q.
StoredUnder(rec, q) ==
    IsPrefix(<<"Q", "u", "e", "s", "t", "i", "o", "n", ":", " ">> \o Strip(q)
             \o <<"\n", "W", "i", "n", "n", "e", "r", ":", " ">>,
             rec.document)

\* A retrieval that the backend answered, ranking first a record stored
\* under the question asked.
RoundTrip ==
    /\ mode = "memory" /\ args.op = "load" /\ args.query = "ok"
    /\ ~IsBlank(args.question) /\ args.top_k >= 1
    /\ store # <<>>
    /\ StoredUnder(store[args.rank[1]], args.question)

\* C16 as stated: with a backend that ranks first a record stored under the
\* question asked, retrieving with that question and k >= 1 returns a
\* sequence that contains the record.
C16_RoundTripWhole ==
    RoundTrip =>
        \E j \in 1..Len(result) : result[j] = store[args.rank[1]].document

\* C16: with a backend that ranks first a record stored under the question
\* asked, retrieving with that question and k >= 1 returns a sequence that
\* contains the record's text cut to its first 500 characters: the whole
\* record when it is no longer than that.
C16_RoundTripSnippet ==
    RoundTrip =>
        LET doc == store[args.rank[1]].document
        IN  \E j \in 1..Len(result) :
                result[j] = IF Len(doc) <= 500 THEN doc
                            ELSE SubSeq(doc, 1, 500)

C16_Witness ==
    /\ RoundTrip
    /\ Len(store) = 2 /\ args.rank[1] = 2
    /\ Len(store[2].document) > 500
    /\ Len(result) = 1 /\ Len(result[1]) = 500


\* The final state of a full run of the pipeline with arguments a against
\* the stub, on an empty memory store.
FirstRunState(a) ==
    CallNodes(<<"load_memory", "opening", "rebuttal1", "rebuttal2", "judge",
                "store_memory", "assemble">>,
              [state |-> LiveInitialState(DebateLiveQuestion(a.question), a),
               store |-> <<>>, nextId |-> 1, calls |-> <<>>,
               memlog |-> <<>>, trace |-> <<>>, err |-> "none"],
              [query |-> "ok", rank |-> <<>>, a |-> StubDebaterReply,
               b |-> StubDebaterReply, judge |-> StubJudgeReply,
               add |-> "ok"]).state

\* C17: against a stub, a full run gives the winner, the final answer and
\* the transcript that the run with the same question, temperature and
\* models gives on an empty memory store, whatever the store holds: two
\* such runs in succession agree character for character, also when the
\* second retrieves the record the first stored.
C17_Deterministic ==
    (LiveRun /\ pc = "returned") =>
        \E first \in {FirstRunState(args)} :
            /\ state["winner"] = first["winner"]
            /\ state["final_answer"] = first["final_answer"]
            /\ state["transcript_markdown"] = first["transcript_markdown"]
            /\ yields[Len(yields)] = RenderOutputs(first, TRUE)

C17_Witness ==
    /\ LiveRun /\ pc = "returned" /\ runs = 2
    /\ Len(store) = 2
    /\ store[1].document = store[2].document
    /\ state["memory_snippets"] = <<store[1].document>>
    /\ Len(state["transcript_markdown"]) > 0

\* C20: every debater call of a run, the two openings and the four
\* rebuttals, is made with the run's temperature, and the judge call with
\* 0.3, whatever the run's temperature and the judge backend.
C20_Temperatures ==
    \A i \in 1..Len(calls) :
        calls[i].temperature = IF i <= 6 THEN args.creativity ELSE 3

C20_Witness ==
    /\ Len(calls) = 7 /\ args.creativity = 0
    /\ calls[7].backend = "gemini" /\ calls[7].temperature = 3
    /\ calls[6].temperature = 0


\* The number of generation calls a streaming run has made when it is
\* suspended at its k-th snapshot.
CallsAtSnapshot == <<0, 2, 4, 6, 7, 7>>

\* C18: a streaming run is suspended only between stages, and while the
\* consumer does not pull after the snapshot of stage N nothing of a later
\* stage has happened: before the first pull nothing at all, after the k-th
\* snapshot exactly the stages up to it have started and ended, with their
\* generation calls, one retrieval, and a memory write only once the last
\* snapshot is out.
C18_SuspendedBetweenStages ==
    (LiveRun /\ pc = "suspended") =>
        /\ Len(trace) % 2 = 0
        /\ \A i \in 1..Len(trace) :
              i % 2 = 0 => trace[i][1] = "end" /\ trace[i][2] = trace[i - 1][2]
        /\ seg = 0 => trace = <<>> /\ calls = <<>> /\ memlog = <<>>
        /\ seg >= 1 =>
              /\ Len(trace) = IF seg = 6 THEN 14 ELSE 2 * seg
              /\ Len(calls) = CallsAtSnapshot[seg]
              /\ Cardinality({i \in 1..Len(memlog) :
                                 memlog[i].op = "query"}) = 1
              /\ seg < 6 => \A i \in 1..Len(memlog) : memlog[i].op # "add"

C18_Witness ==
    /\ LiveRun /\ pc = "suspended" /\ seg = 3
    /\ Len(calls) = 4 /\ Len(yields) = 3
    /\ trace[Len(trace)] = <<"end", "rebuttal1">>

\* The call whose text the i-th call of a run answers.
Answers == <<0, 0, 2, 1, 4, 3>>

\* C19: in each rebuttal round a debater is given, besides the question,
\* only the other side's latest text: in round 1 A is given B's opening and
\* B is given A's opening, in round 2 A is given B's round-1 rebuttal and B
\* is given A's round-1 rebuttal; nothing else of the debate is in the call.
C19_RebuttalContext ==
    \A i \in 3..6 :
        i <= Len(calls) =>
            /\ Len(calls[i].messages) = 2
            /\ calls[i].messages[1].role = "system"
            /\ Len(calls[i].messages[1].content) = 1
            /\ calls[i].messages[2].role = "user"
            /\ calls[i].messages[2].content =
                  <<"Question: ">> \o Strip(args.question)
                  \o <<IF i % 2 = 1 THEN "\n\nDebater B's latest answer:\n"
                       ELSE "\n\nDebater A's latest answer:\n">>
                  \o calls[Answers[i]].text

C19_Witness ==
    /\ Len(calls) = 7
    /\ calls[1].text = <<"x">> /\ calls[2].text = <<"x">>
    /\ calls[3].text = <<"y", "\n", "z">> /\ calls[4].text = <<"y", "\n", "z">>
    /\ calls[5].messages[2].content =
          <<"Question: ", "q", "\n\nDebater B's latest answer:\n",
            "y", "\n", "z">>

---------------------------------------------------------------------------
(* A streaming run over a collection that earlier calls of                  *)
(* store_debate_memory have filled with short and long records.             *)

MaxSeeds == 3

SeedFinals == { <<"f">>, LongText }

\* store_debate_memory called before the run, as an earlier run's
\* node_store_memory calls it.
SeedCall(final_answer) ==
    /\ mode \in {"none", "memory"}
    /\ runs = 0
    /\ nextId <= MaxSeeds
    /\ \E r \in {StoreDebateMemory(<<"q">>, final_answer, WinnerTie, store,
                                   nextId, [add |-> "ok"])} :
          /\ store' = r.coll
          /\ nextId' = r.id
          /\ memlog' = r.ops
    /\ mode' = "memory"
    /\ pc' = "returned"
    /\ err' = "none"
    /\ args' = [op |-> "store", question |-> <<"q">>,
                final_answer |-> final_answer, winner |-> WinnerTie,
                add |-> "ok"]
    /\ result' = <<>>
    /\ UNCHANGED <<runs, node, seg, state, calls, trace, yields>>

\* A verdict whose Final field begins with a tab.
JudgeFinalTab ==
    <<"W", "i", "n", "n", "e", "r", ":", " ", "B", "\n", "F", "i", "n", "a", "l", ":",
      "\t", "u">>

SeededEnv ==
    [debater |-> {StubDebaterReply},
     judge |-> {StubJudgeReply, [ok |-> TRUE, text |-> JudgeFinalTab]},
     query |-> {"ok", "raise"}, add |-> {"ok", "raise"}, runs |-> 1]

SeededNext ==
    \/ \E f \in SeedFinals : SeedCall(f)
    \/ \E q \in { <<"q">> }, c \in Creativities, a \in DebaterModels,
          b \in DebaterModels, j \in {"gemini"} :
            DebateLive(SeededEnv, q, c, a, b, j)
    \/ LiveStart(SeededEnv)
    \/ LiveResume(SeededEnv)
    \/ LiveReturn

SeededSpec == Init /\ [][SeededNext]_vars

---------------------------------------------------------------------------

\* The sentence that opens the memory block, and the snippets joined after it.
MemoryIntro ==
    <<"H", "e", "r", "e", " ", "a", "r", "e", " ", "s", "o", "m", "e", " ", "r", "e",
      "l", "e", "v", "a", "n", "t", " ", "p", "a", "s", "t", " ", "d", "e", "b", "a",
      "t", "e", "s", ".", " ", "Y", "o", "u", " ", "m", "a", "y", " ", "r", "e", "u",
      "s", "e", " ", "u", "s", "e", "f", "u", "l", " ", "i", "d", "e", "a", "s", ",",
      " ", "b", "u", "t", " ", "d", "o", " ", "n", "o", "t", " ", "c", "o", "p", "y",
      " ", "s", "e", "n", "t", "e", "n", "c", "e", "s", " ", "w", "o", "r", "d", "-",
      "f", "o", "r", "-", "w", "o", "r", "d", ":", "\n", "\n">>

JoinedSnippets ==
    MemoryIntro \o Join(state["memory_snippets"], <<"\n", "\n", "-", "-", "-", "\n", "\n">>)

\* The memory block inside the system message of opening call i: what
\* follows the instructions and the line announcing the memory.
MemoryBlock(i) ==
    SubSeq(calls[i].messages[1].content, 3, Len(calls[i].messages[1].content))

\* C21: in the Opening stage the memory block is the retrieved snippets
\* joined with the separator (after the sentence introducing them), cut to
\* 1200 characters after the joining: it is the first 1200 characters of the
\* joined text, or all of it when shorter, so never longer than 1200; both
\* debaters are given the same block; without snippets the system messages
\* are the instructions alone.
C21_MemoryBlock ==
    (LiveRun /\ Len(calls) >= 2) =>
        /\ MemoryBlock(1) = MemoryBlock(2)
        /\ Len(MemoryBlock(1)) <= 1200
        /\ IF state["memory_snippets"] = <<>>
           THEN /\ Len(calls[1].messages[1].content) = 1
                /\ Len(calls[2].messages[1].content) = 1
           ELSE /\ calls[1].messages[1].content[2]
                       = "\nYou also have access to some memory:\n"
                /\ calls[2].messages[1].content[2]
                       = "\nYou also have access to some memory:\n"
                /\ IsPrefix(MemoryBlock(1), JoinedSnippets)
                /\ Len(MemoryBlock(1)) = Min({1200, Len(JoinedSnippets)})

C21_Witness ==
    /\ LiveRun /\ Len(calls) >= 2
    /\ Len(state["memory_snippets"]) = 3
    /\ \A i \in 1..3 : Len(state["memory_snippets"][i]) = 500
    /\ Len(JoinedSnippets) > 1200
    /\ Len(MemoryBlock(2)) = 1200

---------------------------------------------------------------------------
(* One call of run_debate or debate_live, with every outcome of every       *)
(* service: the behaviours of Spec up to the end of the first run.          *)

RunEnv ==
    [debater |-> DebaterReplies, judge |-> JudgeReplies,
     query |-> {"ok", "raise"}, add |-> {"ok", "raise"}, runs |-> 1]

RunNext ==
    \/ \E q \in Questions, c \in Creativities : RunDebate(RunEnv, q, c)
    \/ GraphStep(RunEnv)
    \/ \E q \in Questions, c \in Creativities, a \in DebaterModels,
          b \in DebaterModels, j \in JudgeModels :
            DebateLive(RunEnv, q, c, a, b, j)
    \/ LivePlaceholder
    \/ LiveStart(RunEnv)
    \/ LiveResume(RunEnv)
    \/ LiveReturn

RunSpec == Init /\ [][RunNext]_vars

---------------------------------------------------------------------------

\* A labeled section of the transcript: a block made by _html_block.
IsBlock(s) ==
    /\ Len(s) > 0
    /\ s[1] = "<div style=\"background-color:#fdfdfd; border-left:4px solid "

Sections == Get(state, "transcript_sections", <<>>)

LabeledSections == SelectSeq(Sections, IsBlock)

\* The labeled section of the i-th artifact of the debate: the texts of the
\* six debater calls, in the order of the calls, then the judge's summary.
ArtifactSection(i) ==
    CASE i = 1 -> HtmlBlock(DEBATER_A_COLOR, LabelA \o <<" - Opening">>,
                            calls[1].text)
      [] i = 2 -> HtmlBlock(DEBATER_B_COLOR, LabelB \o <<" - Opening">>,
                            calls[2].text)
      [] i = 3 -> HtmlBlock(DEBATER_A_COLOR,
                            LabelA \o <<" - Rebuttal Round ", "1">>,
                            calls[3].text)
      [] i = 4 -> HtmlBlock(DEBATER_B_COLOR,
                            LabelB \o <<" - Rebuttal Round ", "1">>,
                            calls[4].text)
      [] i = 5 -> HtmlBlock(DEBATER_A_COLOR,
                            LabelA \o <<" - Rebuttal Round ", "2">>,
                            calls[5].text)
      [] i = 6 -> HtmlBlock(DEBATER_B_COLOR,
                            LabelB \o <<" - Rebuttal Round ", "2">>,
                            calls[6].text)
      [] i = 7 -> JudgeSection(state["winner"], ReasonRaw(calls[7].text),
                               state["final_answer"])

\* The number of artifacts the stages that have ended produced.
ArtifactsDue ==
    (IF Ended("opening") THEN 2 ELSE 0) + (IF Ended("rebuttal1") THEN 2 ELSE 0)
    + (IF Ended("rebuttal2") THEN 2 ELSE 0) + (IF Ended("judge") THEN 1 ELSE 0)

\* C22: the labeled sections of the transcript are, at every point of a run,
\* one per artifact of the stages that have ended, in the order A's opening,
\* B's opening, A's and B's round-1 rebuttals, A's and B's round-2
\* rebuttals, the judge's summary: seven in a completed run; and Assemble
\* sets the transcript to all sections joined in order with the separator.
C22_OneSectionPerArtifact ==
    /\ Len(LabeledSections) = ArtifactsDue
    /\ \A i \in 1..ArtifactsDue : LabeledSections[i] = ArtifactSection(i)
    /\ Ended("assemble") =>
          /\ ArtifactsDue = 7
          /\ state["transcript_markdown"] = Join(Sections, SectionSeparator)

C22_Witness ==
    /\ Ended("assemble")
    /\ Len(LabeledSections) = 7 /\ Len(Sections) = 13
    /\ calls[1].text # calls[3].text
    /\ calls[5].text = <<"y", "\n", "z">> /\ calls[6].text = <<"x">>

\* The stages that run in a step.
StepStages == {trace'[i][2] : i \in (Len(trace) + 1)..Len(trace')}

\* A step of a run in progress, not the call that begins a run.
RunStep == runs' = runs /\ mode \in {"live", "batch"}

\* C23: transcript_sections only grows: in every step of a run the list
\* before the step is a prefix of the list after it; a step in which only
\* MemoryLoad, MemoryStore or Assemble run leaves the list as it was; and
\* the transcript of each streaming snapshot begins with the transcript of
\* the snapshot before it.
C23_AppendOnly ==
    [][RunStep =>
         /\ IsPrefix(Sections, Get(state', "transcript_sections", <<>>))
         /\ StepStages \subseteq {"load_memory", "store_memory", "assemble"}
               => Get(state', "transcript_sections", <<>>) = Sections
         /\ (Len(yields) >= 1 /\ Len(yields') = Len(yields) + 1)
               => IsPrefix(yields[Len(yields)][2], yields'[Len(yields')][2])
      ]_vars

C23_Witness ==
    /\ LiveRun /\ Ended("assemble") /\ Len(yields) = 6
    /\ Len(Sections) = 13
    /\ yields[1][2] = <<>>
    /\ Len(yields[2][2]) < Len(yields[3][2])
    /\ Len(yields[4][2]) < Len(yields[5][2])
    /\ yields[6][2] = yields[5][2]

\* The value of a field of the run-state, <<>> when the state has no such
\* key, after and before a step.
Field(k) == IF Has(state, k) THEN <<state[k]>> ELSE <<>>

FieldAfter(k) == IF Has(state', k) THEN <<state'[k]>> ELSE <<>>

\* What the caller gave for an input field of the run-state.
Given(k) ==
    CASE k = "question" -> Strip(args.question)
      [] k = "temperature" -> args.creativity
      [] k = "debater_a_model" -> args.debater_a_model
      [] k = "debater_b_model" -> args.debater_b_model
      [] k = "judge_model" -> args.judge_model

InputFields ==
    {"question", "temperature", "debater_a_model", "debater_b_model",
     "judge_model"}

\* C24: in every step of a run opening_a and opening_b change only if the
\* Opening stage runs in it, winner, final_answer and judge_raw only if the
\* Judgment stage runs in it, and question, temperature and the three model
\* selections, once in the run-state, keep the value the caller gave.
C24_SetOnce ==
    [][RunStep =>
         /\ \A k \in {"opening_a", "opening_b"} :
               FieldAfter(k) # Field(k) => "opening" \in StepStages
         /\ \A k \in {"winner", "final_answer", "judge_raw"} :
               FieldAfter(k) # Field(k) => "judge" \in StepStages
         /\ \A k \in InputFields :
               /\ Has(state, k) => FieldAfter(k) = Field(k)
               /\ Has(state', k) => state'[k] = Given(k)
      ]_vars

C24_Witness ==
    /\ LiveRun /\ Ended("assemble")
    /\ state["opening_a"] = calls[1].text /\ state["opening_b"] = calls[2].text
    /\ calls[3].text # calls[1].text /\ calls[6].text # calls[2].text
    /\ state["judge_raw"] = JudgeB /\ state["winner"] = LabelB
    /\ state["final_answer"] = <<"u">>
    /\ state["question"] = <<"q">> /\ args.question = <<" ", "q", "\n">>

\* C25: a step of a run in which a generation call fails, the first or the
\* second of the Opening stage or of a rebuttal stage or the call of the
\* Judgment stage, leaves every field of the run-state as it was when the
\* stage began, yields no snapshot and returns no result; the calls made
\* before the failing one are those of the stage, nothing of them is kept.
C25_AllOrNothing ==
    [][(RunStep /\ err' = "GenerationError") =>
         /\ StepStages \in {{"opening"}, {"rebuttal1"}, {"rebuttal2"},
                            {"judge"}}
         /\ ~calls'[Len(calls')].ok
         /\ Len(calls') - Len(calls) \in
               (IF StepStages = {"judge"} THEN {1} ELSE {1, 2})
         /\ state' = state
         /\ yields' = yields /\ result' = result
         /\ store' = store
      ]_vars

C25_Witness ==
    /\ LiveRun /\ err = "GenerationError"
    /\ Len(calls) = 4 /\ calls[3].ok /\ ~calls[4].ok
    /\ state["rebuttals_a"] = <<>> /\ state["rebuttals_b"] = <<>>
    /\ Len(Sections) = 5 /\ Len(yields) = 2

\* The backend operations of the current run that wrote a record.
Writes == {i \in 1..Len(memlog) : memlog[i].op = "add" /\ memlog[i].outcome = "ok"}

\* What a step of a run may do to the memory store and to memory_snippets,
\* final being the final answer the record is to hold: the snippets change
\* only in a step of MemoryLoad, which leaves the store alone and takes
\* every snippet from a record already there; the store changes only in a
\* step of MemoryStore after the Judgment stage has ended, by one record
\* with a new identifier holding the run's question, winner and final, and
\* never twice in a run.
MemoryStep(final) ==
    RunStep =>
        /\ IsPrefix(store, store')
        /\ Cardinality({i \in 1..Len(memlog') :
                           memlog'[i].op = "add"}) <= 1
        /\ FieldAfter("memory_snippets") # Field("memory_snippets") =>
              /\ "load_memory" \in StepStages
              /\ store' = store
              /\ \A i \in 1..Len(state'["memory_snippets"]) :
                    \E j \in 1..Len(store) :
                        state'["memory_snippets"][i]
                            = Take(store[j].document, SnippetMax)
        /\ store' # store =>
              /\ "store_memory" \in StepStages
              /\ \E i \in 1..Len(trace) : trace[i] = <<"end", "judge">>
              /\ Len(store') = Len(store) + 1
              /\ store'[Len(store')].id \notin Ids(store)
              /\ FieldAfter("memory_snippets") = Field("memory_snippets")
              /\ store'[Len(store')].winner = state["winner"]
              /\ store'[Len(store')].document =
                    MemoryDocument(state["question"], state["winner"], final)
        /\ ("store_memory" \notin StepStages) => store' = store

\* C26 as stated: the record holds the run-state's final_answer as it is.
C26_RecordExact == [][MemoryStep(state["final_answer"])]_vars

\* C26: a run writes at most one record, in its MemoryStore stage after the
\* Judgment stage, holding the run's question and winner and its final
\* answer trimmed of surrounding whitespace; a run that does not reach
\* MemoryStore writes none; the snippets of a run are taken from records
\* written before its retrieval, so never from the record it writes itself.
C26_RecordTrimmed == [][MemoryStep(Strip(state["final_answer"]))]_vars

C26_Witness ==
    /\ LiveRun /\ Ended("assemble")
    /\ Len(state["memory_snippets"]) = 2 /\ Len(store) = 3
    /\ Cardinality(Writes) = 1
    /\ state["final_answer"] = <<"\t", "u">>
    /\ store[3].document = MemoryDocument(<<"q">>, state["winner"], <<"u">>)
    /\ \A i \in 1..2 : state["memory_snippets"][i] # store[3].document

====
